---- MODULE Spec2Model ----
(***************************************************************************)
(* signquote-pro: the quote calculation engine (src/utils/pricing.ts).     *)
(*                                                                         *)
(* Numbers.  JavaScript numbers are modelled as exact rationals held as    *)
(* integers: a money amount m dollars is the integer m * UNIT.  UNIT is    *)
(* chosen so that every division the engine performs (by 144 for square    *)
(* feet, by 100 for the percentages of the pricing table) is exact, so no  *)
(* rounding is introduced by the model.  Rounding happens only where the   *)
(* code rounds: toFixed(2) and toFixed(1) in the line item strings.        *)
(*                                                                         *)
(* Line items.  The code pushes template strings; a string is modelled as  *)
(* the record [label, args] of its fixed text and of the values that are   *)
(* interpolated into it, in order, each as the code formats it.            *)
(***************************************************************************)
EXTENDS Integers, Sequences, FiniteSets, TLC

\* args, quote, pc: one call of calculateQuote, its result and its position.
\* PRICING: the process-wide pricing rule table the engine reads.
\* calls: the invocations that overlap, each with its arguments, its position
\* in the function body and its result.  frames: their local variables.
VARIABLES args, quote, pc, PRICING, calls, frames

\* app: the state of the App component.  calibrator: the state of the
\* ImageCalibrator component.  design: the API key of the process and the
\* promise of the generateDesignVariants call the App awaits.
VARIABLES app, calibrator, design

uiVars == <<app, calibrator, design>>

vars == <<args, quote, pc, PRICING, calls, frames, app, calibrator, design>>

----------------------------------------------------------------------------
(* Bounds of the input sets.                                               *)

MaxWidthSteps == 3
MaxHeightSteps == 3
MaxDepthSteps == 3
MaxFeetSteps == 5

----------------------------------------------------------------------------
(* Number representation.                                                  *)

\* 144 for the square-foot division, 2000 = lcm of the denominators of
\* 1/4 (lamination), 3/25 (rush), 1/10 (contingency) and 1/20 (tax), chained.
UNIT == 144 * 2000

Dollars(n) == n * UNIT

\* x * (p / 100), without overflowing on x * p.
Pct(x, p) == (x \div 100) * p + ((x % 100) * p) \div 100

Max(a, b) == IF a >= b THEN a ELSE b

\* (area / 144) * perSqft for an area in square inches and a rate in dollars.
SqftCost(area, perSqft) == area * perSqft * (UNIT \div 144)

\* Number.prototype.toFixed(2): the amount in cents, ties away from zero.
toFixed2(x) ==
    LET cent == UNIT \div 100
        half == cent \div 2
    IN  IF x >= 0 THEN (x + half) \div cent ELSE 0 - ((half - x) \div cent)

\* (w * h / 144).toFixed(1): square feet in tenths, ties away from zero.
sqftToFixed1(area) ==
    IF area >= 0 THEN (area * 10 + 72) \div 144
    ELSE 0 - ((72 - area * 10) \div 144)

Item(label, a) == [label |-> label, args |-> a]

----------------------------------------------------------------------------
(* types.ts                                                                *)

CHANNEL_LETTERS == "Channel Letters"
LIGHTBOX == "Lightbox"
WINDOW_VINYL == "Window Vinyl"
SignType == {CHANNEL_LETTERS, LIGHTBOX, WINDOW_VINYL}

NON_LIT == "NON_LIT"
FRONT_LIT == "FRONT_LIT"
BACK_LIT == "BACK_LIT"
LightingType == {NON_LIT, FRONT_LIT, BACK_LIT}

LiftType == {"NONE", "SCISSOR", "BOOM"}

----------------------------------------------------------------------------
(* constants.ts: the pricing rule table.  Rates are in dollars, percentages *)
(* in percent; the tier table is ordered ascending by maxFt.  The shape is *)
(* the one pricing.ts reads.  The percentages and the lightbox lighting    *)
(* adder are the ones pricing.ts prints in its labels and comments (+12%,  *)
(* +25%, 10%, 160); the other rates are representative values, chosen so   *)
(* that raw costs fall below, on and above each minimum price.             *)

PricingRules ==
    [ FABRICATION |->
        (CHANNEL_LETTERS :>
            [ BASE_PER_LETTER |-> 50,
              PER_INCH_HEIGHT |-> 5,
              LIGHTING_ADDER |-> [FRONT_LIT |-> 20, BACK_LIT |-> 30],
              BACKER_ADDER |-> 100,
              MIN_PRICE |-> 500 ])
        @@ (LIGHTBOX :>
            [ PER_SQFT |-> 60,
              DEPTH_BASE |-> 4,
              DEPTH_ADDER_PER_INCH |-> 10,
              LIGHTING_ADDER_FRONT_LIT |-> 160,
              MIN_PRICE |-> 180 ])
        @@ (WINDOW_VINYL :>
            [ PER_SQFT |-> 12,
              LAMINATION_PERCENT |-> 25,
              MIN_PRICE |-> 30 ])
        @@ [RUSH_ORDER_PERCENT |-> 12],
      INSTALLATION |->
        [ BASE_TRIP |-> 150,
          LABOR_RATE |-> 80,
          HEIGHT_TIERS |-> << [maxFt |-> 10, hours |-> 2],
                              [maxFt |-> 15, hours |-> 3],
                              [maxFt |-> 20, hours |-> 4] >>,
          LIFT |-> [SCISSOR |-> 200, BOOM |-> 400],
          ELECTRICAL |-> 120,
          PERMIT |-> 90,
          HARD_ACCESS |-> 60,
          CONTINGENCY_PERCENT |-> 10 ],
      TAX |-> [GST |-> 5] ]

----------------------------------------------------------------------------
(* calculateQuote, section by section.                                     *)

Whitespace == {" ", "\t", "\n"}

\* Variant of letterCount: the whitespace counted, text.length.
letterCountLength(text) == Len(text)

\* text.replace(/\s/g, '').length
RECURSIVE letterCount(_)
letterCount(text) ==
    IF text = <<>> THEN 0
    ELSE (IF Head(text) \in Whitespace THEN 0 ELSE 1) + letterCount(Tail(text))

\* Variants of ApplyFloor: Math.min for Math.max; the floor left out.
ApplyFloorMin(rawCost, minPrice) == IF rawCost <= minPrice THEN rawCost ELSE minPrice

ApplyFloorNone(rawCost, minPrice) == rawCost

\* Math.max(rawCost, rules.MIN_PRICE)
ApplyFloor(rawCost, minPrice) == Max(rawCost, minPrice)

\* Variant of MinimumApplied: the item also emitted when rawCost equals the
\* minimum.
MinimumAppliedOnEqual(fabCost, rawCost, minPrice) ==
    fabCost = minPrice /\ rawCost <= minPrice

\* fabCost === rules.MIN_PRICE && rawCost < rules.MIN_PRICE
MinimumApplied(fabCost, rawCost, minPrice) ==
    fabCost = minPrice /\ rawCost < minPrice

\* Variant of ChannelLightingCost: the BACK_LIT branch left out.
ChannelLightingCostFrontOnly(n, lighting) ==
    IF lighting = FRONT_LIT
    THEN n * Dollars(PRICING.FABRICATION[CHANNEL_LETTERS].LIGHTING_ADDER.FRONT_LIT)
    ELSE 0

\* Variant of ChannelLightingCost: the rate charged once, not per letter.
ChannelLightingCostFlat(n, lighting) ==
    LET rules == PRICING.FABRICATION[CHANNEL_LETTERS]
    IN  IF lighting = FRONT_LIT
        THEN Dollars(rules.LIGHTING_ADDER.FRONT_LIT)
        ELSE IF lighting = BACK_LIT
        THEN Dollars(rules.LIGHTING_ADDER.BACK_LIT)
        ELSE 0

\* Channel letters lighting: a per-letter rate for FRONT_LIT and for BACK_LIT.
ChannelLightingCost(n, lighting) ==
    LET rules == PRICING.FABRICATION[CHANNEL_LETTERS]
    IN  IF lighting = FRONT_LIT
        THEN n * Dollars(rules.LIGHTING_ADDER.FRONT_LIT)
        ELSE IF lighting = BACK_LIT
        THEN n * Dollars(rules.LIGHTING_ADDER.BACK_LIT)
        ELSE 0

\* Variant of LightboxLit: every lit variant charged.
LightboxLitAnyLighting(lighting) == lighting # NON_LIT

\* Lightbox lighting: variant.lighting === LightingType.FRONT_LIT
LightboxLit(lighting) == lighting = FRONT_LIT

\* Variant of Area: the sides added instead of multiplied.
AreaSum(dimensions) == dimensions.widthIn + dimensions.heightIn

\* dimensions.widthIn * dimensions.heightIn
Area(dimensions) == dimensions.widthIn * dimensions.heightIn

\* Variant of LaminationCost: the percentage taken on the floored cost.
LaminationCostOnFloored(rawCost) ==
    Pct(Max(rawCost, Dollars(PRICING.FABRICATION[WINDOW_VINYL].MIN_PRICE)),
        PRICING.FABRICATION[WINDOW_VINYL].LAMINATION_PERCENT)

\* rawCost * rules.LAMINATION_PERCENT
LaminationCost(rawCost) ==
    Pct(rawCost, PRICING.FABRICATION[WINDOW_VINYL].LAMINATION_PERCENT)

\* The SignType.CHANNEL_LETTERS branch.
ChannelLettersFab(dimensions, text, variant) ==
    LET rules == PRICING.FABRICATION[CHANNEL_LETTERS]
        n == letterCount(text)
        baseLettersCost == n * Dollars(rules.BASE_PER_LETTER)
        heightCost == n * dimensions.heightIn * Dollars(rules.PER_INCH_HEIGHT)
        litCost == ChannelLightingCost(n, variant.lighting)
        litItems ==
            IF variant.lighting = FRONT_LIT
            THEN << Item("Front Lit Upgrade", <<toFixed2(litCost)>>) >>
            ELSE IF variant.lighting = BACK_LIT
            THEN << Item("Back Lit Upgrade", <<toFixed2(litCost)>>) >>
            ELSE << >>
        backerCost ==
            IF variant.roundedBacker THEN Dollars(rules.BACKER_ADDER) ELSE 0
        backerItems ==
            IF variant.roundedBacker
            THEN << Item("Raceway/Backer", <<toFixed2(Dollars(rules.BACKER_ADDER))>>) >>
            ELSE << >>
        rawCost == baseLettersCost + heightCost + litCost + backerCost
        fabCost == ApplyFloor(rawCost, Dollars(rules.MIN_PRICE))
        minItems ==
            IF MinimumApplied(fabCost, rawCost, Dollars(rules.MIN_PRICE))
            THEN << Item("Minimum Pricing Applied", <<rules.MIN_PRICE>>) >>
            ELSE << >>
    IN  [ rawCost |-> rawCost,
          fabCost |-> fabCost,
          fabAdders |->
              << Item("Letters Base",
                      <<n, rules.BASE_PER_LETTER, toFixed2(baseLettersCost)>>),
                 Item("Height Adder",
                      <<dimensions.heightIn, toFixed2(heightCost)>>) >>
              \o litItems \o backerItems \o minItems ]

\* Variant of DepthExceeds: any depth other than the base depth adjusted.
DepthDiffers(lightboxDepth, depthBase) == lightboxDepth # depthBase

\* lightboxDepth > rules.DEPTH_BASE
DepthExceeds(lightboxDepth, depthBase) == lightboxDepth > depthBase

\* The SignType.LIGHTBOX branch.
LightboxFab(dimensions, variant, lightboxDepth) ==
    LET rules == PRICING.FABRICATION[LIGHTBOX]
        area == Area(dimensions)
        sizeCost == SqftCost(area, rules.PER_SQFT)
        deep == DepthExceeds(lightboxDepth, rules.DEPTH_BASE)
        depthExcess == lightboxDepth - rules.DEPTH_BASE
        depthCost == depthExcess * Dollars(rules.DEPTH_ADDER_PER_INCH)
        lit == LightboxLit(variant.lighting)
        rawCost == sizeCost
                   + (IF deep THEN depthCost ELSE 0)
                   + (IF lit THEN Dollars(rules.LIGHTING_ADDER_FRONT_LIT) ELSE 0)
        fabCost == ApplyFloor(rawCost, Dollars(rules.MIN_PRICE))
    IN  [ rawCost |-> rawCost,
          fabCost |-> fabCost,
          fabAdders |->
              << Item("Size",
                      <<sqftToFixed1(area), rules.PER_SQFT, toFixed2(sizeCost)>>) >>
              \o (IF deep
                  THEN << Item("Depth Adder", <<depthExcess, toFixed2(depthCost)>>) >>
                  ELSE << >>)
              \o (IF lit
                  THEN << Item("Internal Illumination",
                               <<rules.LIGHTING_ADDER_FRONT_LIT>>) >>
                  ELSE << >>)
              \o (IF MinimumApplied(fabCost, rawCost, Dollars(rules.MIN_PRICE))
                  THEN << Item("Minimum Pricing Applied", <<rules.MIN_PRICE>>) >>
                  ELSE << >>) ]

\* Variant of WindowVinylFab: the minimum item pushed as the other branches do.
WindowVinylFabMinimumItem(dimensions, hasLamination) ==
    LET rules == PRICING.FABRICATION[WINDOW_VINYL]
        area == Area(dimensions)
        sizeCost == SqftCost(area, rules.PER_SQFT)
        lamCost == LaminationCost(sizeCost)
        rawCost == sizeCost + (IF hasLamination THEN lamCost ELSE 0)
        fabCost == ApplyFloor(rawCost, Dollars(rules.MIN_PRICE))
    IN  [ rawCost |-> rawCost,
          fabCost |-> fabCost,
          fabAdders |->
              << Item("Size",
                      <<sqftToFixed1(area), rules.PER_SQFT, toFixed2(sizeCost)>>) >>
              \o (IF hasLamination
                  THEN << Item("Lamination (+25%)", <<toFixed2(lamCost)>>) >>
                  ELSE << >>)
              \o (IF MinimumApplied(fabCost, rawCost, Dollars(rules.MIN_PRICE))
                  THEN << Item("Minimum Pricing Applied", <<rules.MIN_PRICE>>) >>
                  ELSE << >>) ]

\* The SignType.WINDOW_VINYL branch.
WindowVinylFab(dimensions, hasLamination) ==
    LET rules == PRICING.FABRICATION[WINDOW_VINYL]
        area == Area(dimensions)
        sizeCost == SqftCost(area, rules.PER_SQFT)
        lamCost == LaminationCost(sizeCost)
        rawCost == sizeCost + (IF hasLamination THEN lamCost ELSE 0)
    IN  [ rawCost |-> rawCost,
          fabCost |-> ApplyFloor(rawCost, Dollars(rules.MIN_PRICE)),
          fabAdders |->
              << Item("Size",
                      <<sqftToFixed1(area), rules.PER_SQFT, toFixed2(sizeCost)>>) >>
              \o (IF hasLamination
                  THEN << Item("Lamination (+25%)", <<toFixed2(lamCost)>>) >>
                  ELSE << >>) ]

\* Variant of Fabrication: the channel letters priced at the height the
\* variant recommends.
FabricationRecommendedHeight(signType, dimensions, text, variant, hasLamination, lightboxDepth) ==
    IF signType = CHANNEL_LETTERS
    THEN ChannelLettersFab(
             [dimensions EXCEPT !.heightIn = variant.recommendedLetterHeightIn],
             text, variant)
    ELSE IF signType = LIGHTBOX
    THEN LightboxFab(dimensions, variant, lightboxDepth)
    ELSE IF signType = WINDOW_VINYL
    THEN WindowVinylFab(dimensions, hasLamination)
    ELSE [rawCost |-> 0, fabCost |-> 0, fabAdders |-> << >>]

\* Variant of Fabrication: the backer of the variant also charged on a
\* lightbox.
FabricationBackerOnLightbox(signType, dimensions, text, variant, hasLamination, lightboxDepth) ==
    IF signType = CHANNEL_LETTERS
    THEN ChannelLettersFab(dimensions, text, variant)
    ELSE IF signType = LIGHTBOX
    THEN LET fab == LightboxFab(dimensions, variant, lightboxDepth)
             backer == Dollars(PRICING.FABRICATION[CHANNEL_LETTERS].BACKER_ADDER)
         IN  IF variant.roundedBacker
             THEN [fab EXCEPT !.fabCost = @ + backer]
             ELSE fab
    ELSE IF signType = WINDOW_VINYL
    THEN WindowVinylFab(dimensions, hasLamination)
    ELSE [rawCost |-> 0, fabCost |-> 0, fabAdders |-> << >>]

\* The if / else-if chain over signType; no branch is taken for any other
\* value, which leaves fabCost = 0 and fabAdders empty.
Fabrication(signType, dimensions, text, variant, hasLamination, lightboxDepth) ==
    IF signType = CHANNEL_LETTERS
    THEN ChannelLettersFab(dimensions, text, variant)
    ELSE IF signType = LIGHTBOX
    THEN LightboxFab(dimensions, variant, lightboxDepth)
    ELSE IF signType = WINDOW_VINYL
    THEN WindowVinylFab(dimensions, hasLamination)
    ELSE [rawCost |-> 0, fabCost |-> 0, fabAdders |-> << >>]

\* Variant of RushOrder: the fee taken on the raw cost, before the floor.
RushOrderOnRaw(fab, isRush) ==
    LET rushFee == Pct(fab.rawCost, PRICING.FABRICATION.RUSH_ORDER_PERCENT)
    IN  IF isRush
        THEN [ fabCost |-> fab.fabCost + rushFee,
               fabAdders |-> Append(fab.fabAdders,
                                    Item("Rush Order (+12%)", <<toFixed2(rushFee)>>)) ]
        ELSE [ fabCost |-> fab.fabCost, fabAdders |-> fab.fabAdders ]

\* Variant of RushOrder: the rush item put at the head of the line items.
RushOrderItemFirst(fab, isRush) ==
    LET rushFee == Pct(fab.fabCost, PRICING.FABRICATION.RUSH_ORDER_PERCENT)
    IN  IF isRush
        THEN [ fabCost |-> fab.fabCost + rushFee,
               fabAdders |-> << Item("Rush Order (+12%)", <<toFixed2(rushFee)>>) >>
                             \o fab.fabAdders ]
        ELSE [ fabCost |-> fab.fabCost, fabAdders |-> fab.fabAdders ]

\* Rush Order.
RushOrder(fab, isRush) ==
    LET rushFee == Pct(fab.fabCost, PRICING.FABRICATION.RUSH_ORDER_PERCENT)
    IN  IF isRush
        THEN [ fabCost |-> fab.fabCost + rushFee,
               fabAdders |-> Append(fab.fabAdders,
                                    Item("Rush Order (+12%)", <<toFixed2(rushFee)>>)) ]
        ELSE [ fabCost |-> fab.fabCost, fabAdders |-> fab.fabAdders ]

\* The value of find() without a match and of an index outside the array.
Undefined == [undefined |-> TRUE]

\* Variant of findTier: an exclusive boundary, heightFeet < t.maxFt.
findTierExclusive(heightFeet) ==
    LET tiers == PRICING.INSTALLATION.HEIGHT_TIERS
        hits == {i \in 1..Len(tiers) : heightFeet < tiers[i].maxFt}
    IN  IF hits # {}
        THEN tiers[CHOOSE i \in hits : \A j \in hits : i <= j]
        ELSE IF Len(tiers) > 0 THEN tiers[Len(tiers)] ELSE Undefined

\* Variant of findTier: a zero-hour tier substituted when the table has none.
findTierDefault(heightFeet) ==
    LET tiers == PRICING.INSTALLATION.HEIGHT_TIERS
        hits == {i \in 1..Len(tiers) : heightFeet <= tiers[i].maxFt}
    IN  IF hits # {}
        THEN tiers[CHOOSE i \in hits : \A j \in hits : i <= j]
        ELSE IF Len(tiers) > 0 THEN tiers[Len(tiers)]
        ELSE [maxFt |-> 0, hours |-> 0]

\* HEIGHT_TIERS.find(t => heightFeet <= t.maxFt) || HEIGHT_TIERS[length - 1]
\* An empty table gives undefined || undefined.
findTier(heightFeet) ==
    LET tiers == PRICING.INSTALLATION.HEIGHT_TIERS
        hits == {i \in 1..Len(tiers) : heightFeet <= tiers[i].maxFt}
    IN  IF hits # {}
        THEN tiers[CHOOSE i \in hits : \A j \in hits : i <= j]
        ELSE IF Len(tiers) > 0 THEN tiers[Len(tiers)] ELSE Undefined

\* tier.hours on an undefined tier raises a TypeError; nothing else in
\* calculateQuote can throw.
Throws(installConfig) == findTier(installConfig.heightFeet) = Undefined

\* let liftCost = 0; if SCISSOR ...; if BOOM ...
LiftCost(liftType) ==
    IF liftType = "BOOM" THEN Dollars(PRICING.INSTALLATION.LIFT.BOOM)
    ELSE IF liftType = "SCISSOR" THEN Dollars(PRICING.INSTALLATION.LIFT.SCISSOR)
    ELSE 0

\* Variant of Extras: the permit item pushed before the electrical item.
ExtrasPermitFirst(installConfig) ==
    LET iRules == PRICING.INSTALLATION
    IN  [ extras |->
              (IF installConfig.electricalWork THEN Dollars(iRules.ELECTRICAL) ELSE 0)
              + (IF installConfig.permit THEN Dollars(iRules.PERMIT) ELSE 0)
              + (IF installConfig.hardAccess THEN Dollars(iRules.HARD_ACCESS) ELSE 0),
          items |->
              (IF installConfig.permit
               THEN << Item("Permit Allowance", <<iRules.PERMIT>>) >>
               ELSE << >>)
              \o (IF installConfig.electricalWork
                  THEN << Item("Electrical Hookup", <<iRules.ELECTRICAL>>) >>
                  ELSE << >>)
              \o (IF installConfig.hardAccess
                  THEN << Item("Hard Access/Parking", <<iRules.HARD_ACCESS>>) >>
                  ELSE << >>) ]

\* let extras = 0; the three flags, each adding its amount and its line item.
Extras(installConfig) ==
    LET iRules == PRICING.INSTALLATION
    IN  [ extras |->
              (IF installConfig.electricalWork THEN Dollars(iRules.ELECTRICAL) ELSE 0)
              + (IF installConfig.permit THEN Dollars(iRules.PERMIT) ELSE 0)
              + (IF installConfig.hardAccess THEN Dollars(iRules.HARD_ACCESS) ELSE 0),
          items |->
              (IF installConfig.electricalWork
               THEN << Item("Electrical Hookup", <<iRules.ELECTRICAL>>) >>
               ELSE << >>)
              \o (IF installConfig.permit
                  THEN << Item("Permit Allowance", <<iRules.PERMIT>>) >>
                  ELSE << >>)
              \o (IF installConfig.hardAccess
                  THEN << Item("Hard Access/Parking", <<iRules.HARD_ACCESS>>) >>
                  ELSE << >>) ]

\* Variant of Contingency: the percentage compounded, taken on the figure that
\* already includes it.
ContingencyCompounded(preContingencyInstall) ==
    LET p == PRICING.INSTALLATION.CONTINGENCY_PERCENT
    IN  Pct(preContingencyInstall + Pct(preContingencyInstall, p), p)

\* preContingencyInstall * iRules.CONTINGENCY_PERCENT
Contingency(preContingencyInstall) ==
    Pct(preContingencyInstall, PRICING.INSTALLATION.CONTINGENCY_PERCENT)

\* Installation Calculation.
Installation(installConfig) ==
    LET iRules == PRICING.INSTALLATION
        installBase == Dollars(iRules.BASE_TRIP)
        tier == findTier(installConfig.heightFeet)
        laborCost == tier.hours * Dollars(iRules.LABOR_RATE)
        liftCost == LiftCost(installConfig.liftType)
        extras == Extras(installConfig)
        preContingencyInstall == installBase + laborCost + liftCost + extras.extras
        contingency == Contingency(preContingencyInstall)
    IN  [ installationCost |-> preContingencyInstall + contingency,
          preContingencyInstall |-> preContingencyInstall,
          contingency |-> contingency,
          tier |-> tier,
          laborCost |-> laborCost,
          liftCost |-> liftCost,
          installAdders |->
              << Item("Base Trip Fee", <<iRules.BASE_TRIP>>),
                 Item("Labor",
                      <<tier.hours, iRules.LABOR_RATE, toFixed2(laborCost)>>) >>
              \o (IF liftCost > 0
                  THEN << Item(installConfig.liftType \o " Lift",
                               <<liftCost \div UNIT>>) >>
                  ELSE << >>)
              \o extras.items
              \o << Item("Contingency (10%)", <<toFixed2(contingency)>>) >> ]

\* Variant of Totals: the tax taken on the fabrication cost only.
TotalsTaxOnFabrication(fabCost, installationCost) ==
    LET subtotal == fabCost + installationCost
        gst == Pct(fabCost, PRICING.TAX.GST)
    IN  [subtotal |-> subtotal, gst |-> gst, total |-> subtotal + gst]

\* Totals.
Totals(fabCost, installationCost) ==
    LET subtotal == fabCost + installationCost
        gst == Pct(subtotal, PRICING.TAX.GST)
    IN  [subtotal |-> subtotal, gst |-> gst, total |-> subtotal + gst]

\* Variant of QuoteResult: the lift reported within installLabor.
QuoteResultLaborWithLift(fabCost, fabAdders, installationCost, laborCost, liftCost, installAdders) ==
    LET tot == Totals(fabCost, installationCost)
    IN  [ fabricationCost |-> fabCost,
          installationCost |-> installationCost,
          subtotal |-> tot.subtotal,
          gst |-> tot.gst,
          total |-> tot.total,
          breakdown |->
              [ fabBase |-> fabCost,
                fabAdders |-> fabAdders,
                installLabor |-> laborCost + liftCost,
                installLift |-> liftCost,
                installAdders |-> installAdders ] ]

\* The totals and the returned object, from the locals of the call.
QuoteResult(fabCost, fabAdders, installationCost, laborCost, liftCost, installAdders) ==
    LET tot == Totals(fabCost, installationCost)
    IN  [ fabricationCost |-> fabCost,
          installationCost |-> installationCost,
          subtotal |-> tot.subtotal,
          gst |-> tot.gst,
          total |-> tot.total,
          breakdown |->
              [ fabBase |-> fabCost,
                fabAdders |-> fabAdders,
                installLabor |-> laborCost,
                installLift |-> liftCost,
                installAdders |-> installAdders ] ]

calculateQuote(signType, dimensions, text, variant, installConfig, isRush, hasLamination, lightboxDepth) ==
    LET fab == RushOrder(Fabrication(signType, dimensions, text, variant,
                                     hasLamination, lightboxDepth), isRush)
        inst == Installation(installConfig)
    IN  QuoteResult(fab.fabCost, fab.fabAdders, inst.installationCost,
                    inst.laborCost, inst.liftCost, inst.installAdders)

\* calculateQuote applied to a record of its eight arguments.
Quote(a) ==
    calculateQuote(a.signType, a.dimensions, a.text, a.variant, a.installConfig,
                   a.isRush, a.hasLamination, a.lightboxDepth)

----------------------------------------------------------------------------
(* The inputs a call is made with.                                         *)

Widths == {12 * k : k \in 0..MaxWidthSteps}
Heights == {6 * k : k \in 0..MaxHeightSteps}
Depths == {2 * k : k \in 1..MaxDepthSteps}
Feet == {5 * k : k \in 1..MaxFeetSteps}

Texts == { << >>, <<" ", " ">>, <<"A", " ", "B">>, <<"O", "P", "E", "N">> }

\* The fields of a DesignVariant other than lighting and roundedBacker, as the
\* first and the third fallback variant of geminiService.ts set them; the
\* optional backgroundColor is absent from the third.
StyleA ==
    [ name |-> "Option A", fontFamily |-> "Arial", letterSpacing |-> "0em",
      stroke |-> FALSE, strokeWidth |-> "0px", recommendedLetterHeightIn |-> 18,
      color |-> "#ffffff", backgroundColor |-> "#000000",
      description |-> "Most common choice." ]

StyleC ==
    [ name |-> "Option C", fontFamily |-> "Impact", letterSpacing |-> "0em",
      stroke |-> TRUE, strokeWidth |-> "2px", recommendedLetterHeightIn |-> 24,
      color |-> "#ff0000", backgroundColor |-> "undefined",
      description |-> "Bold statement." ]

Styles == {StyleA, StyleC}

\* A DesignVariant.
Variant(lighting, roundedBacker, style) ==
    [ name |-> style.name, fontFamily |-> style.fontFamily,
      letterSpacing |-> style.letterSpacing,
      lighting |-> lighting, roundedBacker |-> roundedBacker,
      stroke |-> style.stroke, strokeWidth |-> style.strokeWidth,
      recommendedLetterHeightIn |-> style.recommendedLetterHeightIn,
      color |-> style.color, backgroundColor |-> style.backgroundColor,
      description |-> style.description ]

Variants == {Variant(l, b, StyleA) : l \in LightingType, b \in BOOLEAN}

\* InstallConfig.address and clientName: the App's initial empty strings, and
\* a customer's.
NoCustomer == [address |-> "", clientName |-> ""]
Customer == [address |-> "12 Main St", clientName |-> "Acme"]
Customers == {NoCustomer, Customer}

InstallConfigs ==
    [ heightFeet : Feet, liftType : LiftType,
      electricalWork : BOOLEAN, permit : BOOLEAN, hardAccess : BOOLEAN,
      address : {NoCustomer.address}, clientName : {NoCustomer.clientName} ]

\* The arguments other than installConfig.
SignInputs ==
    [ signType : SignType,
      dimensions : [widthIn : Widths, heightIn : Heights],
      text : Texts,
      variant : Variants,
      isRush : BOOLEAN,
      hasLamination : BOOLEAN,
      lightboxDepth : Depths ]

\* The App's initial installConfig, and the configuration that differs from
\* it in every field.
AppInstallConfig ==
    [ heightFeet |-> 10, liftType |-> "NONE",
      electricalWork |-> TRUE, permit |-> TRUE, hardAccess |-> FALSE,
      address |-> "", clientName |-> "" ]

OppositeInstallConfig ==
    [ heightFeet |-> 5 * MaxFeetSteps, liftType |-> "BOOM",
      electricalWork |-> FALSE, permit |-> FALSE, hardAccess |-> TRUE,
      address |-> Customer.address, clientName |-> Customer.clientName ]

\* The App's initial sign inputs, for each sign type, with and without rush.
AppSignInputs ==
    { s \in SignInputs :
        /\ s.dimensions = [widthIn |-> 0, heightIn |-> 18]
        /\ s.text = <<"O", "P", "E", "N">>
        /\ s.variant = Variant(FRONT_LIT, FALSE, StyleA)
        /\ ~s.hasLamination
        /\ s.lightboxDepth = 4 }

WithInstall(s, c) ==
    [ signType |-> s.signType, dimensions |-> s.dimensions, text |-> s.text,
      variant |-> s.variant, installConfig |-> c, isRush |-> s.isRush,
      hasLamination |-> s.hasLamination, lightboxDepth |-> s.lightboxDepth ]

\* Calls vary the sign inputs over two installation configurations, and the
\* installation configuration over the App's initial sign inputs.
Inputs ==
    { WithInstall(s, c) :
        s \in SignInputs, c \in {AppInstallConfig, OppositeInstallConfig} }
    \cup { WithInstall(s, c) : s \in AppSignInputs, c \in InstallConfigs }

NoQuote == << >>

\* No invocation overlaps the call.
NoCalls == << >>

\* The engine is called outside the App.
NotMounted == << >>

Init ==
    /\ PRICING = PricingRules
    /\ args \in Inputs
    /\ quote = NoQuote
    /\ pc = "call"
    /\ calls = NoCalls /\ frames = NoCalls
    /\ app = NotMounted /\ calibrator = NotMounted /\ design = NotMounted

\* One call: it returns a QuoteResult, or throws and returns nothing.
Calculate ==
    /\ pc = "call"
    /\ IF Throws(args.installConfig)
       THEN quote' = NoQuote /\ pc' = "threw"
       ELSE quote' = Quote(args) /\ pc' = "done"
    /\ UNCHANGED <<args, PRICING, calls, frames, uiVars>>

Next == Calculate

Spec == Init /\ [][Next]_vars

----------------------------------------------------------------------------
(* Calls whose arguments or pricing table break the caller's contract:     *)
(* negative sizes, values outside the enumerations, a table without tiers. *)

AnyWidths == Widths \cup {-12}
AnyHeights == Heights \cup {-6}
AnyDepths == Depths \cup {-2}
AnyFeet == Feet \cup {-5}
AnySignTypes == SignType \cup {"Neon"}
AnyLiftTypes == LiftType \cup {"CRANE"}

AnyInputs ==
    [ signType : AnySignTypes,
      dimensions : [widthIn : AnyWidths, heightIn : AnyHeights],
      text : { <<"O", "P", "E", "N">> },
      variant : { Variant(FRONT_LIT, FALSE, StyleA) },
      installConfig :
          [ heightFeet : AnyFeet, liftType : AnyLiftTypes,
            electricalWork : {TRUE}, permit : {TRUE}, hardAccess : {FALSE},
            address : {NoCustomer.address}, clientName : {NoCustomer.clientName} ],
      isRush : {FALSE},
      hasLamination : BOOLEAN,
      lightboxDepth : AnyDepths ]

\* The table as configured, with its first tier only, and with no tier.
PricingTables ==
    { PricingRules,
      [PricingRules EXCEPT
          !.INSTALLATION.HEIGHT_TIERS = SubSeq(@, 1, 1)],
      [PricingRules EXCEPT !.INSTALLATION.HEIGHT_TIERS = << >>] }

InitAny ==
    /\ PRICING \in PricingTables
    /\ args \in AnyInputs
    /\ quote = NoQuote
    /\ pc = "call"
    /\ calls = NoCalls /\ frames = NoCalls
    /\ app = NotMounted /\ calibrator = NotMounted /\ design = NotMounted

SpecAny == InitAny /\ [][Next]_vars

----------------------------------------------------------------------------
(* Overlapping invocations.  calculateQuote is followed section by section *)
(* (fabrication, rush, installation, totals and return), and the sections  *)
(* of the invocations interleave in every order.  This is more than the    *)
(* JavaScript runtime allows, where a synchronous call runs to completion. *)
(* The first invocation is in flight from the start; another one is made   *)
(* only while some invocation is in flight.                                *)

MaxInvocations == 2

Invocations == 1..MaxInvocations

InFlight == {"fab", "rush", "install", "totals"}

\* The arguments of the overlapping invocations: the App's initial sign
\* inputs, for each sign type; the rushed ones under the opposite installation.
ConcurrentInputs ==
    { WithInstall(s, IF s.isRush THEN OppositeInstallConfig ELSE AppInstallConfig) :
        s \in AppSignInputs }

\* The App's initial call, once a variant is selected.
AppCall ==
    CHOOSE a \in ConcurrentInputs :
        /\ a.signType = CHANNEL_LETTERS /\ ~a.isRush
        /\ a.installConfig = AppInstallConfig

IdleCall == [args |-> NoQuote, pc |-> "idle", result |-> NoQuote]

\* The locals at entry: let fabCost = 0; const fabAdders = []; the
\* installation locals are not assigned yet.
NewFrame ==
    [ fabCost |-> 0, fabAdders |-> << >>,
      installationCost |-> 0, laborCost |-> 0, liftCost |-> 0,
      installAdders |-> << >> ]

\* Variant of Frame: the locals declared at module level, one set of them
\* for all invocations.
FrameShared(i) == 1

\* The locals are declared in the function body: each invocation has its own.
Frame(i) == i

InitConcurrent ==
    /\ PRICING = PricingRules
    /\ args = AppCall
    /\ quote = NoQuote
    /\ pc = "call"
    /\ \E a \in ConcurrentInputs :
          calls = [i \in Invocations |->
                      IF i = 1 THEN [args |-> a, pc |-> "fab", result |-> NoQuote]
                      ELSE IdleCall]
    /\ frames = [i \in Invocations |-> NewFrame]
    /\ app = NotMounted /\ calibrator = NotMounted /\ design = NotMounted

\* A caller invokes calculateQuote while another invocation is in flight.
Invoke(i) ==
    /\ calls[i].pc = "idle"
    /\ \E j \in Invocations \ {i} : calls[j].pc \in InFlight
    /\ \E a \in ConcurrentInputs :
          calls' = [calls EXCEPT ![i] = [args |-> a, pc |-> "fab", result |-> NoQuote]]
    /\ frames' = [frames EXCEPT ![Frame(i)] = NewFrame]
    /\ UNCHANGED <<args, quote, pc, PRICING, uiVars>>

\* Fabrication Calculation.
StepFabrication(i) ==
    /\ calls[i].pc = "fab"
    /\ LET a == calls[i].args
           fab == Fabrication(a.signType, a.dimensions, a.text, a.variant,
                              a.hasLamination, a.lightboxDepth)
       IN  frames' = [frames EXCEPT ![Frame(i)].fabCost = fab.fabCost,
                                    ![Frame(i)].fabAdders = fab.fabAdders]
    /\ calls' = [calls EXCEPT ![i].pc = "rush"]
    /\ UNCHANGED <<args, quote, pc, PRICING, uiVars>>

\* Rush Order.
StepRush(i) ==
    /\ calls[i].pc = "rush"
    /\ LET fab == RushOrder(frames[Frame(i)], calls[i].args.isRush)
       IN  frames' = [frames EXCEPT ![Frame(i)].fabCost = fab.fabCost,
                                    ![Frame(i)].fabAdders = fab.fabAdders]
    /\ calls' = [calls EXCEPT ![i].pc = "install"]
    /\ UNCHANGED <<args, quote, pc, PRICING, uiVars>>

\* Installation Calculation; it throws on an undefined tier.
StepInstallation(i) ==
    /\ calls[i].pc = "install"
    /\ IF Throws(calls[i].args.installConfig)
       THEN /\ calls' = [calls EXCEPT ![i].pc = "threw"]
            /\ UNCHANGED frames
       ELSE /\ LET inst == Installation(calls[i].args.installConfig)
               IN  frames' =
                     [frames EXCEPT
                        ![Frame(i)].installationCost = inst.installationCost,
                        ![Frame(i)].laborCost = inst.laborCost,
                        ![Frame(i)].liftCost = inst.liftCost,
                        ![Frame(i)].installAdders = inst.installAdders]
            /\ calls' = [calls EXCEPT ![i].pc = "totals"]
    /\ UNCHANGED <<args, quote, pc, PRICING, uiVars>>

\* Totals and return.
StepTotals(i) ==
    /\ calls[i].pc = "totals"
    /\ LET f == frames[Frame(i)]
       IN  calls' = [calls EXCEPT
                       ![i].pc = "done",
                       ![i].result =
                           QuoteResult(f.fabCost, f.fabAdders,
                                       f.installationCost, f.laborCost,
                                       f.liftCost, f.installAdders)]
    /\ UNCHANGED <<args, quote, pc, PRICING, frames, uiVars>>

NextConcurrent ==
    \/ Calculate
    \/ \E i \in Invocations :
          \/ Invoke(i)
          \/ StepFabrication(i)
          \/ StepRush(i)
          \/ StepInstallation(i)
          \/ StepTotals(i)

SpecConcurrent == InitConcurrent /\ [][NextConcurrent]_vars

----------------------------------------------------------------------------
(* geminiService.ts: generateDesignVariants.                               *)

\* OPTION_CONFIGS, by zero-based index; the dash of the names is written -.
OPTION_CONFIGS ==
    << [ name |-> "Option A - Standard Visibility",
         description |-> "Most common choice." ],
       [ name |-> "Option B - Premium Halo (Recommended)",
         description |-> "Recommended for a premium look." ],
       [ name |-> "Option C - Maximum Impact",
         description |-> "Best for maximum impact." ] >>

\* OPTION_CONFIGS[index] || OPTION_CONFIGS[0]
OptionConfig(index) ==
    IF index + 1 \in DOMAIN OPTION_CONFIGS
    THEN OPTION_CONFIGS[index + 1] ELSE OPTION_CONFIGS[1]

\* allowedFonts[index] || fallbackFont
FontOr(allowedFonts, index, fallbackFont) ==
    IF index + 1 \in DOMAIN allowedFonts THEN allowedFonts[index + 1]
    ELSE fallbackFont

\* A variant as the AI response declares it.
Declared(lighting, roundedBacker, recommendedLetterHeightIn) ==
    [ name |-> "Creative", fontFamily |-> "Montserrat",
      letterSpacing |-> "0.05em",
      lighting |-> lighting, roundedBacker |-> roundedBacker,
      stroke |-> FALSE, strokeWidth |-> "0px",
      recommendedLetterHeightIn |-> recommendedLetterHeightIn,
      color |-> "#ffffff", backgroundColor |-> "undefined",
      description |-> "undefined" ]

\* What the model replies to generateContent: the request rejected, a response
\* without text, a text that is no JSON, a JSON object without a variants
\* array, and JSON objects with no, one, three and four variants whose
\* declared lighting follows the instruction or deviates from it.
Replies ==
    { [kind |-> "rejected"], [kind |-> "noText"], [kind |-> "notJson"],
      [kind |-> "noVariants"],
      [kind |-> "json", variants |-> << >>],
      [kind |-> "json", variants |-> << Declared(NON_LIT, TRUE, 14) >>],
      [kind |-> "json",
       variants |-> << Declared(FRONT_LIT, FALSE, 18),
                       Declared(BACK_LIT, FALSE, 14),
                       Declared(FRONT_LIT, TRUE, 24) >>],
      [kind |-> "json",
       variants |-> << Declared(BACK_LIT, FALSE, 24),
                       Declared(NON_LIT, FALSE, 18),
                       Declared(BACK_LIT, TRUE, 14),
                       Declared(NON_LIT, TRUE, 18) >>] }

\* Whether the try block throws: the awaited request, the missing text,
\* JSON.parse, or parsed.variants.slice on an undefined variants.
TryThrows(reply) == reply.kind # "json"

\* Variant of Enforced: the lighting the response declares kept.
EnforcedAsDeclared(v, index) ==
    [v EXCEPT !.name = OptionConfig(index).name,
              !.description = OptionConfig(index).description]

\* { ...v, name, description, lighting: index === 1 ? BACK_LIT : FRONT_LIT }
Enforced(v, index) ==
    [v EXCEPT !.name = OptionConfig(index).name,
              !.description = OptionConfig(index).description,
              !.lighting = IF index = 1 THEN BACK_LIT ELSE FRONT_LIT]

\* parsed.variants.slice(0, 3).map((v, index) => ...)
mappedVariants(variants) ==
    LET cut == IF Len(variants) > 3 THEN SubSeq(variants, 1, 3) ELSE variants
    IN  [i \in 1..Len(cut) |-> Enforced(cut[i], i - 1)]

\* The three variants of the catch block.
fallbackVariants(allowedFonts) ==
    LET fallbackFont == FontOr(allowedFonts, 0, "Arial")
    IN  << [ name |-> OPTION_CONFIGS[1].name,
             description |-> OPTION_CONFIGS[1].description,
             fontFamily |-> fallbackFont, letterSpacing |-> "0em",
             lighting |-> FRONT_LIT, roundedBacker |-> FALSE,
             stroke |-> FALSE, strokeWidth |-> "0px",
             recommendedLetterHeightIn |-> 18,
             color |-> "#ffffff", backgroundColor |-> "#000000" ],
           [ name |-> OPTION_CONFIGS[2].name,
             description |-> OPTION_CONFIGS[2].description,
             fontFamily |-> FontOr(allowedFonts, 1, fallbackFont),
             letterSpacing |-> "0.2em",
             lighting |-> BACK_LIT, roundedBacker |-> FALSE,
             stroke |-> TRUE, strokeWidth |-> "1px",
             recommendedLetterHeightIn |-> 14,
             color |-> "#333333", backgroundColor |-> "undefined" ],
           [ name |-> OPTION_CONFIGS[3].name,
             description |-> OPTION_CONFIGS[3].description,
             fontFamily |-> FontOr(allowedFonts, 2, fallbackFont),
             letterSpacing |-> "0em",
             lighting |-> FRONT_LIT, roundedBacker |-> TRUE,
             stroke |-> TRUE, strokeWidth |-> "2px",
             recommendedLetterHeightIn |-> 24,
             color |-> "#ff0000", backgroundColor |-> "undefined" ] >>

\* generateDesignVariants: how its promise settles, for the API key being
\* set or not and for a reply of the model.  The path field tells the try
\* block from the catch block; it is not part of the DesignResponse.
generateDesignVariants(apiKey, allowedFonts, reply) ==
    IF ~apiKey
    THEN [status |-> "rejected", reason |-> "API Key is missing"]
    ELSE IF TryThrows(reply)
    THEN [status |-> "fulfilled", path |-> "fallback",
          variants |-> fallbackVariants(allowedFonts),
          placement |-> "fallback box"]
    ELSE [status |-> "fulfilled", path |-> "api",
          variants |-> mappedVariants(reply.variants),
          placement |-> "detected box"]

----------------------------------------------------------------------------
(* ImageCalibrator.tsx and the App component.  A handler is an action; the *)
(* guard of an action is the condition under which the element that fires  *)
(* the handler is rendered and enabled, and the handler's early returns.    *)
(* handleGenerateDesigns is asynchronous: it runs up to its first await,    *)
(* continues when the file is read, and continues again when the promise   *)
(* of generateDesignVariants has settled; other handlers run in between.    *)
(* The quote is memoised from the App state as part of every action.        *)
(* alert, console.error and the PDF export change no state and are left    *)
(* out.                                                                     *)

Null == [null |-> TRUE]

\* The file the user picks and URL.createObjectURL of it.
File == [name |-> "storefront"]

ObjectUrl == [url |-> "blob"]

\* A pixels-per-inch value, the exact quotient px / inches; 0 has one form.
Zero == [px |-> 0, inches |-> 1]

Ratio(px, inches) == IF px = 0 THEN Zero ELSE [px |-> px, inches |-> inches]

\* A number | null used as a condition: neither null nor 0.
Truthy(r) == r # Null /\ r # Zero

\* val > 0
IsPositive(r) == r # Null /\ r.px * r.inches > 0

\* Where the mouse can be on the image.
Points == { [x |-> 0, y |-> 0], [x |-> 3, y |-> 4] }

\* Math.sqrt, on the squares the points give.
Sqrt(n) == CHOOSE r \in 0..n : r * r = n

\* Math.sqrt(dx * dx + dy * dy)
DistPx(startPoint, endPoint) ==
    LET dx == endPoint.x - startPoint.x
        dy == endPoint.y - startPoint.y
    IN  Sqrt(dx * dx + dy * dy)

DigitValue ==
    [ c \in {"0", "1", "2", "3", "4", "5", "6", "7", "8", "9"} |->
        CASE c = "0" -> 0 [] c = "1" -> 1 [] c = "2" -> 2 [] c = "3" -> 3
          [] c = "4" -> 4 [] c = "5" -> 5 [] c = "6" -> 6 [] c = "7" -> 7
          [] c = "8" -> 8 [] c = "9" -> 9 ]

NaN == [nan |-> TRUE, value |-> 0]

\* The longest prefix of digits, as a number; NaN without a digit.
RECURSIVE ParseDigits(_, _, _)
ParseDigits(str, acc, seen) ==
    IF str # << >> /\ Head(str) \in DOMAIN DigitValue
    THEN ParseDigits(Tail(str), acc * 10 + DigitValue[Head(str)], TRUE)
    ELSE IF seen THEN [nan |-> FALSE, value |-> acc] ELSE NaN

\* parseFloat, for strings of a sign and digits followed by anything;
\* fractions and exponents are not modelled.
parseFloat(str) ==
    IF str # << >> /\ Head(str) = "-"
    THEN LET n == ParseDigits(Tail(str), 0, FALSE)
         IN  IF n.nan THEN NaN ELSE [nan |-> FALSE, value |-> 0 - n.value]
    ELSE ParseDigits(str, 0, FALSE)

\* What is typed into the distance field.
DistanceInputs ==
    { << >>, <<"a", "b">>, <<"0">>, <<"-", "5">>, <<"3", "6">> }

\* Variant of ValidDistance: 0 accepted.
ValidDistanceOrZero(inches) == ~inches.nan /\ inches.value >= 0

\* !isNaN(inches) && inches > 0
ValidDistance(inches) == ~inches.nan /\ inches.value > 0

\* The fonts the App passes: FONT_LIBRARY[fontCategory], no font selected.
AppAllowedFonts == <<"Montserrat", "Arial", "Impact">>

\* The arguments of the memoised calculateQuote call.
AppArgs(a) ==
    [ signType |-> a.signType,
      dimensions |-> [widthIn |-> a.widthIn, heightIn |-> a.heightIn],
      text |-> a.signText, variant |-> a.selectedVariant,
      installConfig |-> AppInstallConfig, isRush |-> FALSE,
      hasLamination |-> FALSE, lightboxDepth |-> 4 ]

\* const quote = useMemo(...): null without a selected variant.
Memo(a) ==
    /\ args' = AppArgs(a)
    /\ IF a.selectedVariant = Null
       THEN quote' = NoQuote /\ pc' = "idle"
       ELSE quote' = Quote(AppArgs(a)) /\ pc' = "done"
    /\ UNCHANGED <<PRICING, calls, frames>>

InitApp ==
    /\ PRICING = PricingRules
    /\ calls = NoCalls /\ frames = NoCalls
    /\ app = [ step |-> 1, imageFile |-> Null, pxPerInch |-> Null,
               signType |-> CHANNEL_LETTERS, signText |-> <<"O", "P", "E", "N">>,
               widthIn |-> 0, heightIn |-> 18,
               isGenerating |-> FALSE, handler |-> "idle",
               variants |-> << >>, selectedVariant |-> Null,
               placement |-> "undefined" ]
    /\ calibrator = [ imageUrl |-> Null, isDrawing |-> FALSE,
                      startPoint |-> Null, endPoint |-> Null,
                      showInput |-> FALSE, realDistance |-> << >> ]
    /\ design \in [apiKey : BOOLEAN, reply : {Null}, promise : {[status |-> "none"]}]
    /\ args = AppArgs(app)
    /\ quote = NoQuote
    /\ pc = "idle"

\* App.handleImageLoaded
ImageLoaded(a) ==
    [a EXCEPT !.imageFile = File, !.step = 1, !.placement = "undefined",
              !.variants = << >>, !.selectedVariant = Null]

\* App.handleCalibrated
Calibrated(a, val) ==
    [a EXCEPT !.pxPerInch = val, !.step = IF IsPositive(val) THEN 2 ELSE @]

\* The file input is rendered while there is no image.
handleFileChange ==
    /\ calibrator.imageUrl = Null
    /\ calibrator' = [calibrator EXCEPT !.imageUrl = ObjectUrl, !.startPoint = Null,
                                        !.endPoint = Null, !.showInput = FALSE]
    /\ app' = Calibrated(ImageLoaded(app), Zero)
    /\ Memo(app')
    /\ UNCHANGED design

handleMouseDown(p) ==
    /\ calibrator.imageUrl # Null
    /\ ~Truthy(app.pxPerInch)
    /\ ~calibrator.showInput
    /\ calibrator' = [calibrator EXCEPT !.isDrawing = TRUE,
                                        !.startPoint = p, !.endPoint = p]
    /\ Memo(app)
    /\ UNCHANGED <<app, design>>

handleMouseMove(p) ==
    /\ calibrator.imageUrl # Null
    /\ calibrator.isDrawing
    /\ calibrator' = [calibrator EXCEPT !.endPoint = p]
    /\ Memo(app)
    /\ UNCHANGED <<app, design>>

handleMouseUp ==
    /\ calibrator.imageUrl # Null
    /\ calibrator.isDrawing
    /\ calibrator' = [calibrator EXCEPT !.isDrawing = FALSE, !.showInput = TRUE]
    /\ Memo(app)
    /\ UNCHANGED <<app, design>>

\* onChange of the distance field, which the dialog holds.
setRealDistance(str) ==
    /\ calibrator.imageUrl # Null
    /\ calibrator.showInput
    /\ calibrator' = [calibrator EXCEPT !.realDistance = str]
    /\ Memo(app)
    /\ UNCHANGED <<app, design>>

\* The Set button, which the dialog holds.
submitCalibration ==
    /\ calibrator.imageUrl # Null
    /\ calibrator.showInput
    /\ IF calibrator.startPoint = Null \/ calibrator.endPoint = Null
       THEN UNCHANGED <<app, calibrator>>
       ELSE LET distPx == DistPx(calibrator.startPoint, calibrator.endPoint)
                inches == parseFloat(calibrator.realDistance)
            IN  IF ValidDistance(inches)
                THEN /\ app' = Calibrated(app, Ratio(distPx, inches.value))
                     /\ calibrator' = [calibrator EXCEPT !.showInput = FALSE]
                ELSE UNCHANGED <<app, calibrator>>
    /\ Memo(app')
    /\ UNCHANGED design

\* The Recalibrate button, rendered while pxPerInch is truthy.
resetCalibration ==
    /\ calibrator.imageUrl # Null
    /\ Truthy(app.pxPerInch)
    /\ app' = Calibrated(app, Zero)
    /\ calibrator' = [calibrator EXCEPT !.startPoint = Null, !.endPoint = Null,
                                        !.showInput = FALSE, !.realDistance = << >>]
    /\ Memo(app')
    /\ UNCHANGED design

\* App.handleGenerateDesigns up to await fileToBase64; the button is disabled
\* while isGenerating or without a calibration.
handleGenerateDesigns ==
    /\ ~app.isGenerating /\ Truthy(app.pxPerInch)
    /\ app.signText # << >>
    /\ app' = [app EXCEPT !.isGenerating = TRUE,
                          !.handler = IF app.imageFile # Null
                                      THEN "reading" ELSE "calling"]
    /\ Memo(app')
    /\ UNCHANGED <<calibrator, design>>

\* The file is read and generateDesignVariants is called, or the reader
\* fails and the catch and finally blocks run.
FileRead ==
    /\ app.handler \in {"reading", "calling"}
    /\ \E ok \in BOOLEAN :
          IF ok \/ app.handler = "calling"
          THEN /\ app' = [app EXCEPT !.handler = "awaiting"]
               /\ design' = [design EXCEPT !.promise = [status |-> "pending"],
                                           !.reply = Null]
          ELSE /\ app' = [app EXCEPT !.handler = "idle", !.isGenerating = FALSE]
               /\ UNCHANGED design
    /\ Memo(app')
    /\ UNCHANGED calibrator

\* generateDesignVariants runs to the end, for some reply of the model.
DesignsSettle ==
    /\ design.promise.status = "pending"
    /\ \E reply \in Replies :
          design' = [design EXCEPT
                       !.reply = reply,
                       !.promise = generateDesignVariants(design.apiKey,
                                                          AppAllowedFonts, reply)]
    /\ Memo(app)
    /\ UNCHANGED <<app, calibrator>>

\* handleGenerateDesigns after the response: setVariants ... setStep(3).
Responded(a, response) ==
    LET first == response.variants[1]
    IN  IF Len(response.variants) > 0
        THEN [a EXCEPT !.variants = response.variants,
                       !.placement = response.placement,
                       !.selectedVariant = first,
                       !.heightIn = IF a.signType = CHANNEL_LETTERS
                                    THEN first.recommendedLetterHeightIn ELSE @,
                       !.step = 3]
        ELSE [a EXCEPT !.variants = response.variants,
                       !.placement = response.placement,
                       !.step = 3]

\* handleGenerateDesigns after await generateDesignVariants: the rest of the
\* try block, or the catch block; then the finally block.
DesignsReceived ==
    /\ app.handler = "awaiting"
    /\ design.promise.status \in {"fulfilled", "rejected"}
    /\ LET a == IF design.promise.status = "fulfilled"
                THEN Responded(app, design.promise) ELSE app
       IN  app' = [a EXCEPT !.handler = "idle", !.isGenerating = FALSE]
    /\ design' = [design EXCEPT !.promise = [status |-> "none"]]
    /\ Memo(app')
    /\ UNCHANGED calibrator

\* A click on the i-th listed variant.
selectVariant(i) ==
    /\ i \in 1..Len(app.variants)
    /\ app' = [app EXCEPT
                 !.selectedVariant = app.variants[i],
                 !.heightIn = IF app.signType = CHANNEL_LETTERS
                              THEN app.variants[i].recommendedLetterHeightIn
                              ELSE @]
    /\ Memo(app')
    /\ UNCHANGED <<calibrator, design>>

NextApp ==
    \/ handleFileChange
    \/ \E p \in Points : handleMouseDown(p) \/ handleMouseMove(p)
    \/ handleMouseUp
    \/ \E str \in DistanceInputs : setRealDistance(str)
    \/ submitCalibration
    \/ resetCalibration
    \/ handleGenerateDesigns
    \/ FileRead
    \/ DesignsSettle
    \/ DesignsReceived
    \/ \E i \in 1..3 : selectVariant(i)

SpecApp == InitApp /\ [][NextApp]_vars

----------------------------------------------------------------------------
(* Vocabulary of the properties.                                           *)

Done == pc = "done"

\* part = whole * (p / 100), exactly.
IsPercentOf(part, whole, p) ==
    /\ (p * (whole % 100)) % 100 = 0
    /\ part = p * (whole \div 100) + (p * (whole % 100)) \div 100

HasItem(items, label) == \E i \in 1..Len(items) : items[i].label = label

\* The raw (pre-floor) fabrication cost of a call.
RawCostOf(a) ==
    Fabrication(a.signType, a.dimensions, a.text, a.variant,
                a.hasLamination, a.lightboxDepth).rawCost

MinPriceOf(signType) == Dollars(PRICING.FABRICATION[signType].MIN_PRICE)

RushPercent == PRICING.FABRICATION.RUSH_ORDER_PERCENT

Floored == {CHANNEL_LETTERS, LIGHTBOX}

----------------------------------------------------------------------------
\* C1: every returned quote has subtotal = fabricationCost + installationCost,
\* gst = subtotal * tax rate, and total = subtotal + gst.
C1_TotalsIdentity ==
    Done =>
        /\ quote.subtotal = quote.fabricationCost + quote.installationCost
        /\ IsPercentOf(quote.gst, quote.subtotal, PRICING.TAX.GST)
        /\ quote.total = quote.subtotal + quote.gst

\* A rushed, laminated window vinyl quote with a boom lift: every term of the
\* totals is nonzero.
C1_Witness ==
    /\ Done
    /\ args.signType = WINDOW_VINYL /\ args.isRush /\ args.hasLamination
    /\ args.installConfig.liftType = "BOOM"
    /\ quote.fabricationCost > 0 /\ quote.installationCost > 0 /\ quote.gst > 0

\* C2 as stated: a channel letters or lightbox quote whose raw cost is below the
\* minimum price returns fabricationCost equal to the minimum price.
C2_FloorExact_AsStated ==
    (Done /\ args.signType \in Floored
          /\ RawCostOf(args) < MinPriceOf(args.signType))
        => quote.fabricationCost = MinPriceOf(args.signType)

\* C2 amended: under the same premise fabricationCost is the minimum price when
\* isRush is false, and the minimum price plus the rush percentage of the
\* minimum price when isRush is true.
C2_FloorExact ==
    (Done /\ args.signType \in Floored
          /\ RawCostOf(args) < MinPriceOf(args.signType))
        => LET m == MinPriceOf(args.signType)
           IN  IF args.isRush
               THEN /\ IsPercentOf(quote.fabricationCost - m, m, RushPercent)
                    /\ quote.fabricationCost > m
               ELSE quote.fabricationCost = m

\* A rushed lightbox whose raw cost is positive and below the minimum price.
C2_Witness ==
    /\ Done /\ args.signType = LIGHTBOX /\ args.isRush
    /\ RawCostOf(args) > 0 /\ RawCostOf(args) < MinPriceOf(LIGHTBOX)

\* C3: for channel letters and lightbox the fabrication line items contain
\* "Minimum Pricing Applied" if and only if the raw cost is strictly below the
\* minimum price.
C3_MinimumItemIff ==
    (Done /\ args.signType \in Floored)
        => (HasItem(quote.breakdown.fabAdders, "Minimum Pricing Applied")
            <=> RawCostOf(args) < MinPriceOf(args.signType))

\* A raw cost exactly equal to the minimum price, and no minimum item.
C3_Witness ==
    /\ Done /\ args.signType \in Floored
    /\ RawCostOf(args) = MinPriceOf(args.signType)
    /\ ~HasItem(quote.breakdown.fabAdders, "Minimum Pricing Applied")

\* C4: for each of the three sign categories, with or without rush, the
\* returned fabricationCost is never below the category's minimum price.
C4_NeverBelowMinimum ==
    Done => quote.fabricationCost >= MinPriceOf(args.signType)

\* A window vinyl quote whose raw cost is below the minimum price.
C4_Witness ==
    /\ Done /\ args.signType = WINDOW_VINYL /\ ~args.isRush
    /\ RawCostOf(args) < MinPriceOf(WINDOW_VINYL)
    /\ quote.fabricationCost = MinPriceOf(WINDOW_VINYL)

\* C5: the fabricationCost of a rushed call equals the fabricationCost of the
\* same call without rush, which is already floored, times (1 + rush percent).
C5_RushExact ==
    (Done /\ args.isRush)
        => LET plain == Quote([args EXCEPT !.isRush = FALSE]).fabricationCost
           IN  /\ IsPercentOf(quote.fabricationCost - plain, plain, RushPercent)
               /\ plain >= MinPriceOf(args.signType)

\* A rushed call on which the floor binds: the fee is taken on the minimum
\* price, not on the smaller raw cost.
C5_Witness ==
    /\ Done /\ args.isRush
    /\ RawCostOf(args) > 0 /\ RawCostOf(args) < MinPriceOf(args.signType)
    /\ quote.fabricationCost > MinPriceOf(args.signType)


WithLighting(a, l) == [a EXCEPT !.variant.lighting = l]

WithDimensions(a, w, h) == [a EXCEPT !.dimensions = [widthIn |-> w, heightIn |-> h]]

ItemArgs(items, label) ==
    items[CHOOSE i \in 1..Len(items) : items[i].label = label].args

\* C6 as stated: for channel letters, all else equal, the FRONT_LIT variant and
\* the BACK_LIT variant each cost strictly more to fabricate than NON_LIT.
C6_LitStrictlyHigher_AsStated ==
    (Done /\ args.signType = CHANNEL_LETTERS /\ args.variant.lighting = NON_LIT)
        => \A l \in {FRONT_LIT, BACK_LIT} :
              Quote(WithLighting(args, l)).fabricationCost > quote.fabricationCost

\* C6 amended: the lit variants never cost less than NON_LIT, and cost strictly
\* more whenever the text has a letter and the lit variant's raw cost is above
\* the minimum price.
C6_LitHigher ==
    (Done /\ args.signType = CHANNEL_LETTERS /\ args.variant.lighting = NON_LIT)
        => \A l \in {FRONT_LIT, BACK_LIT} :
              LET lit == WithLighting(args, l)
              IN  /\ Quote(lit).fabricationCost >= quote.fabricationCost
                  /\ (letterCount(args.text) > 0
                         /\ RawCostOf(lit) > MinPriceOf(CHANNEL_LETTERS))
                      => Quote(lit).fabricationCost > quote.fabricationCost

\* NON_LIT letters priced at the minimum whose lit variants rise above it.
C6_Witness ==
    /\ Done /\ args.signType = CHANNEL_LETTERS /\ args.variant.lighting = NON_LIT
    /\ letterCount(args.text) > 0
    /\ RawCostOf(args) < MinPriceOf(CHANNEL_LETTERS)
    /\ \A l \in {FRONT_LIT, BACK_LIT} :
          /\ RawCostOf(WithLighting(args, l)) > MinPriceOf(CHANNEL_LETTERS)
          /\ Quote(WithLighting(args, l)).fabricationCost > quote.fabricationCost

LightboxAdder == Dollars(PRICING.FABRICATION[LIGHTBOX].LIGHTING_ADDER_FRONT_LIT)

\* C7 as stated: for lightbox, all else equal, FRONT_LIT costs exactly the
\* lighting adder more to fabricate than NON_LIT, and BACK_LIT gives the cost
\* and line items of NON_LIT.
C7_LightboxAdder_AsStated ==
    (Done /\ args.signType = LIGHTBOX /\ args.variant.lighting = NON_LIT)
        => /\ Quote(WithLighting(args, FRONT_LIT)).fabricationCost
                = quote.fabricationCost + LightboxAdder
           /\ Quote(WithLighting(args, BACK_LIT)).fabricationCost
                = quote.fabricationCost
           /\ Quote(WithLighting(args, BACK_LIT)).breakdown.fabAdders
                = quote.breakdown.fabAdders

\* C7 amended: FRONT_LIT raises the raw cost by exactly the adder; the
\* fabricationCost rises by exactly the adder when the NON_LIT raw cost is at
\* least the minimum price and isRush is false, by the adder times (1 + rush
\* percent) when isRush is true, and by less (never a negative amount) when the
\* NON_LIT raw cost is below the minimum price; BACK_LIT gives the cost and
\* line items of NON_LIT.
C7_LightboxAdder ==
    (Done /\ args.signType = LIGHTBOX /\ args.variant.lighting = NON_LIT)
        => LET front == WithLighting(args, FRONT_LIT)
               back == WithLighting(args, BACK_LIT)
               diff == Quote(front).fabricationCost - quote.fabricationCost
               full == IF args.isRush
                       THEN LightboxAdder + Pct(LightboxAdder, RushPercent)
                       ELSE LightboxAdder
           IN  /\ RawCostOf(front) = RawCostOf(args) + LightboxAdder
               /\ RawCostOf(args) >= MinPriceOf(LIGHTBOX) => diff = full
               /\ RawCostOf(args) < MinPriceOf(LIGHTBOX) => (0 <= diff /\ diff < full)
               /\ Quote(back).fabricationCost = quote.fabricationCost
               /\ Quote(back).breakdown.fabAdders = quote.breakdown.fabAdders

\* A NON_LIT lightbox above the minimum price, not rushed: FRONT_LIT costs
\* exactly the adder more.
C7_Witness ==
    /\ Done /\ args.signType = LIGHTBOX /\ args.variant.lighting = NON_LIT
    /\ ~args.isRush /\ RawCostOf(args) > MinPriceOf(LIGHTBOX)
    /\ Quote(WithLighting(args, FRONT_LIT)).fabricationCost
          = quote.fabricationCost + LightboxAdder

\* C8: labor uses the first tier, in table order, whose maxFt is at least
\* heightFeet (a heightFeet equal to a tier's maxFt selects that tier), and the
\* last tier when heightFeet exceeds every maxFt.
C8_TierSelection ==
    Done =>
        LET tiers == PRICING.INSTALLATION.HEIGHT_TIERS
            hf == args.installConfig.heightFeet
            rate == PRICING.INSTALLATION.LABOR_RATE
        IN  \E i \in 1..Len(tiers) :
               /\ \/ /\ tiers[i].maxFt >= hf
                     /\ \A j \in 1..(i - 1) : tiers[j].maxFt < hf
                  \/ /\ i = Len(tiers)
                     /\ \A j \in 1..Len(tiers) : tiers[j].maxFt < hf
               /\ quote.breakdown.installLabor = tiers[i].hours * Dollars(rate)
               /\ ItemArgs(quote.breakdown.installAdders, "Labor")[1] = tiers[i].hours

\* heightFeet equal to the maxFt of the second tier: the second tier's hours,
\* not the third's.
C8_Witness ==
    LET tiers == PRICING.INSTALLATION.HEIGHT_TIERS
    IN  /\ Done /\ args.installConfig.heightFeet = tiers[2].maxFt
        /\ quote.breakdown.installLabor
              = tiers[2].hours * Dollars(PRICING.INSTALLATION.LABOR_RATE)
        /\ tiers[2].hours # tiers[3].hours

\* The window vinyl size cost and lamination amount as the pricing rules
\* state them: (widthIn * heightIn / 144) * perSqft, and the lamination
\* percentage of that.
VinylSizeCost(a) ==
    a.dimensions.widthIn * a.dimensions.heightIn
        * PRICING.FABRICATION[WINDOW_VINYL].PER_SQFT * (UNIT \div 144)

VinylLamination(a) ==
    Pct(VinylSizeCost(a), PRICING.FABRICATION[WINDOW_VINYL].LAMINATION_PERCENT)

\* C9: for window vinyl with lamination the lamination amount is the
\* lamination percentage of the pre-lamination raw cost sqft * perSqft, also
\* where the minimum price floor binds.
C9_LaminationBase ==
    (Done /\ args.signType = WINDOW_VINYL /\ args.hasLamination)
        => /\ IsPercentOf(VinylLamination(args), VinylSizeCost(args),
                          PRICING.FABRICATION[WINDOW_VINYL].LAMINATION_PERCENT)
           /\ HasItem(quote.breakdown.fabAdders, "Lamination (+25%)")
           /\ ItemArgs(quote.breakdown.fabAdders, "Lamination (+25%)")
                = <<toFixed2(VinylLamination(args))>>
           /\ RawCostOf(args) = VinylSizeCost(args) + VinylLamination(args)
           /\ ~args.isRush
                => quote.fabricationCost
                     = Max(VinylSizeCost(args) + VinylLamination(args),
                           MinPriceOf(WINDOW_VINYL))

\* Laminated vinyl on which the floor binds: the lamination item shows the
\* percentage of the raw cost, which differs from that of the minimum price.
C9_Witness ==
    /\ Done /\ args.signType = WINDOW_VINYL /\ args.hasLamination
    /\ VinylSizeCost(args) > 0
    /\ RawCostOf(args) < MinPriceOf(WINDOW_VINYL)
    /\ ItemArgs(quote.breakdown.fabAdders, "Lamination (+25%)")
          = <<toFixed2(VinylLamination(args))>>
    /\ toFixed2(VinylLamination(args))
          # toFixed2(Pct(MinPriceOf(WINDOW_VINYL),
                         PRICING.FABRICATION[WINDOW_VINYL].LAMINATION_PERCENT))

\* C10: fabricationCost never decreases when heightIn grows (channel letters)
\* or when widthIn * heightIn grows (lightbox, window vinyl), all else fixed.
C10_Monotone ==
    Done =>
        IF args.signType = CHANNEL_LETTERS
        THEN \A h \in Heights :
                h >= args.dimensions.heightIn
                    => Quote(WithDimensions(args, args.dimensions.widthIn, h))
                           .fabricationCost >= quote.fabricationCost
        ELSE \A w \in Widths, h \in Heights :
                w * h >= args.dimensions.widthIn * args.dimensions.heightIn
                    => Quote(WithDimensions(args, w, h)).fabricationCost
                           >= quote.fabricationCost

\* A lightbox with one side zero and a larger lightbox with both sides
\* nonzero but a smaller sum of sides, which costs strictly more.
C10_Witness ==
    /\ Done /\ args.signType = LIGHTBOX
    /\ args.dimensions.widthIn * args.dimensions.heightIn = 0
    /\ \E w \in Widths, h \in Heights :
          /\ w * h > 0
          /\ w + h < args.dimensions.widthIn + args.dimensions.heightIn
          /\ Quote(WithDimensions(args, w, h)).fabricationCost
                > quote.fabricationCost


----------------------------------------------------------------------------
(* Error handling.                                                         *)

Returned == pc = "done"

Threw == pc = "threw"

InvalidNumeric(a) ==
    \/ a.dimensions.widthIn < 0 \/ a.dimensions.heightIn < 0
    \/ a.installConfig.heightFeet < 0 \/ a.lightboxDepth < 0

\* C11 as stated: with a negative widthIn, heightIn, heightFeet or
\* lightboxDepth the call fails with a validation error and returns no
\* QuoteResult.
C11_Validation_AsStated == InvalidNumeric(args) => ~Returned

\* C12 as stated: with a sign category or lift type outside the enumerations
\* the call fails with an error and returns no QuoteResult.
C12_Unrecognized_AsStated ==
    (args.signType \notin SignType \/ args.installConfig.liftType \notin LiftType)
        => ~Returned

\* C18: with an empty tier table (no tier covers the height and there is no
\* last tier to fall back on) the call fails with an error and returns no
\* QuoteResult; with at least one tier it returns.
C18_EmptyTierTable ==
    pc # "call" =>
        IF PRICING.INSTALLATION.HEIGHT_TIERS = << >>
        THEN Threw /\ quote = NoQuote
        ELSE Returned

\* A call against the empty tier table, which threw.
C18_Witness ==
    /\ Threw /\ PRICING.INSTALLATION.HEIGHT_TIERS = << >>
    /\ args.installConfig.heightFeet > 0

----------------------------------------------------------------------------
(* Order of the line items.                                                *)

Labels(items) == [i \in 1..Len(items) |-> items[i].label]

\* The position of a label in the fixed order of the channel letters items;
\* the two lighting upgrades share a position.
ChannelRank(label) ==
    CASE label = "Letters Base" -> 1
      [] label = "Height Adder" -> 2
      [] label \in {"Front Lit Upgrade", "Back Lit Upgrade"} -> 3
      [] label = "Raceway/Backer" -> 4
      [] label = "Minimum Pricing Applied" -> 5
      [] label = "Rush Order (+12%)" -> 6
      [] OTHER -> 0

\* The position of a label in the fixed order of the installation items.
InstallRank(label) ==
    CASE label = "Base Trip Fee" -> 1
      [] label = "Labor" -> 2
      [] label \in {"SCISSOR Lift", "BOOM Lift"} -> 3
      [] label = "Electrical Hookup" -> 4
      [] label = "Permit Allowance" -> 5
      [] label = "Hard Access/Parking" -> 6
      [] label = "Contingency (10%)" -> 7
      [] OTHER -> 0

\* Every rank is a known one and the ranks strictly increase along the
\* sequence.
InOrder(ranks) ==
    /\ \A i \in 1..Len(ranks) : ranks[i] > 0
    /\ \A i \in 1..Len(ranks) : \A j \in 1..Len(ranks) :
          i < j => ranks[i] < ranks[j]

\* C13: the channel letters fabrication items appear in the fixed order base
\* letters, height adder, lighting upgrade, backer, minimum applied, rush;
\* base letters and height adder are always present, first and second; the
\* lighting upgrade is present exactly when lighting is not NON_LIT and the
\* backer exactly when roundedBacker.
C13_ChannelItemOrder ==
    (Done /\ args.signType = CHANNEL_LETTERS) =>
        LET labels == Labels(quote.breakdown.fabAdders)
        IN  /\ InOrder([i \in 1..Len(labels) |-> ChannelRank(labels[i])])
            /\ Len(labels) >= 2
            /\ labels[1] = "Letters Base"
            /\ labels[2] = "Height Adder"
            /\ HasItem(quote.breakdown.fabAdders, "Front Lit Upgrade")
                  <=> args.variant.lighting = FRONT_LIT
            /\ HasItem(quote.breakdown.fabAdders, "Back Lit Upgrade")
                  <=> args.variant.lighting = BACK_LIT
            /\ HasItem(quote.breakdown.fabAdders, "Raceway/Backer")
                  <=> args.variant.roundedBacker

\* A rushed back-lit quote with a backer on which the floor binds: all six
\* items are present.
C13_Witness ==
    /\ Done /\ args.signType = CHANNEL_LETTERS
    /\ args.variant.lighting = BACK_LIT
    /\ Len(quote.breakdown.fabAdders) = 6

\* C14: in the installation items the base trip fee is first and labor second;
\* a lift item follows exactly when the lift cost is nonzero; electrical,
\* permit and hard access follow in that order, each exactly when its flag is
\* true; the contingency item is always present and last.
C14_InstallItemOrder ==
    Done =>
        LET items == quote.breakdown.installAdders
            labels == Labels(items)
            c == args.installConfig
        IN  /\ InOrder([i \in 1..Len(labels) |-> InstallRank(labels[i])])
            /\ Len(labels) >= 3
            /\ labels[1] = "Base Trip Fee"
            /\ labels[2] = "Labor"
            /\ labels[Len(labels)] = "Contingency (10%)"
            /\ (\E i \in 1..Len(labels) : InstallRank(labels[i]) = 3)
                  <=> quote.breakdown.installLift # 0
            /\ HasItem(items, "Electrical Hookup") <=> c.electricalWork
            /\ HasItem(items, "Permit Allowance") <=> c.permit
            /\ HasItem(items, "Hard Access/Parking") <=> c.hardAccess

\* A boom lift installation with the three flags set: all seven items.
C14_Witness ==
    /\ Done
    /\ args.installConfig.liftType = "BOOM"
    /\ Len(quote.breakdown.installAdders) = 7

----------------------------------------------------------------------------
(* Worked scenario, contingency, window vinyl.                             *)

\* The hours of the first tier whose maxFt covers the height, else of the last.
TierHours(heightFeet) ==
    LET tiers == PRICING.INSTALLATION.HEIGHT_TIERS
    IN  IF \E i \in 1..Len(tiers) : heightFeet <= tiers[i].maxFt
        THEN tiers[CHOOSE i \in 1..Len(tiers) :
                      /\ heightFeet <= tiers[i].maxFt
                      /\ \A j \in 1..(i - 1) : heightFeet > tiers[j].maxFt].hours
        ELSE tiers[Len(tiers)].hours

\* base trip + labor + lift + extras of an installation configuration, from
\* the pricing table.
PreContingencySum(c) ==
    LET iRules == PRICING.INSTALLATION
    IN  Dollars(iRules.BASE_TRIP)
        + TierHours(c.heightFeet) * Dollars(iRules.LABOR_RATE)
        + (CASE c.liftType = "SCISSOR" -> Dollars(iRules.LIFT.SCISSOR)
             [] c.liftType = "BOOM" -> Dollars(iRules.LIFT.BOOM)
             [] OTHER -> 0)
        + (IF c.electricalWork THEN Dollars(iRules.ELECTRICAL) ELSE 0)
        + (IF c.permit THEN Dollars(iRules.PERMIT) ELSE 0)
        + (IF c.hardAccess THEN Dollars(iRules.HARD_ACCESS) ELSE 0)

\* The scenario of the specification: OPEN, 18 in, front lit, no backer, not
\* rushed, installed at 10 ft without a lift, with electrical work and permit.
IsScenario(a) ==
    /\ a.signType = CHANNEL_LETTERS
    /\ a.text = <<"O", "P", "E", "N">>
    /\ a.dimensions.heightIn = 18
    /\ a.variant.lighting = FRONT_LIT /\ ~a.variant.roundedBacker
    /\ ~a.isRush
    /\ a.installConfig.heightFeet = 10 /\ a.installConfig.liftType = "NONE"
    /\ a.installConfig.electricalWork /\ a.installConfig.permit
    /\ ~a.installConfig.hardAccess

\* C17: in the scenario fabricationCost = max(4 * basePerLetter
\* + 4 * 18 * perInchHeight + 4 * frontLitRate, minimumPrice), installationCost
\* = (baseTrip + tierHours * laborRate + electrical + permit) * (1 +
\* contingencyPercent), and total = (fabricationCost + installationCost) *
\* (1 + taxRate).
C17_Scenario ==
    (Done /\ IsScenario(args)) =>
        LET rules == PRICING.FABRICATION[CHANNEL_LETTERS]
            iRules == PRICING.INSTALLATION
            fabrication ==
                Max(4 * Dollars(rules.BASE_PER_LETTER)
                    + 4 * 18 * Dollars(rules.PER_INCH_HEIGHT)
                    + 4 * Dollars(rules.LIGHTING_ADDER.FRONT_LIT),
                    Dollars(rules.MIN_PRICE))
            beforeContingency ==
                Dollars(iRules.BASE_TRIP)
                + TierHours(10) * Dollars(iRules.LABOR_RATE)
                + Dollars(iRules.ELECTRICAL) + Dollars(iRules.PERMIT)
            installation ==
                beforeContingency
                + Pct(beforeContingency, iRules.CONTINGENCY_PERCENT)
        IN  /\ quote.fabricationCost = fabrication
            /\ quote.installationCost = installation
            /\ quote.total = (fabrication + installation)
                             + Pct(fabrication + installation, PRICING.TAX.GST)

\* The scenario was quoted, and its raw cost is above the minimum price.
C17_Witness ==
    /\ Done /\ IsScenario(args)
    /\ quote.fabricationCost > MinPriceOf(CHANNEL_LETTERS)
    /\ ~HasItem(quote.breakdown.fabAdders, "Minimum Pricing Applied")

\* C19: the contingency is the contingency percentage of the sum base trip +
\* labor + lift + extras, and installationCost is that sum plus the
\* contingency, for every height, lift type and combination of flags.
C19_Contingency ==
    Done =>
        LET pre == PreContingencySum(args.installConfig)
            contingency == quote.installationCost - pre
        IN  /\ IsPercentOf(contingency, pre, PRICING.INSTALLATION.CONTINGENCY_PERCENT)
            /\ quote.installationCost = pre + contingency
            /\ ItemArgs(quote.breakdown.installAdders, "Contingency (10%)")
                  = <<toFixed2(contingency)>>

\* An installation above the last tier with a scissor lift and hard access.
C19_Witness ==
    /\ Done
    /\ args.installConfig.heightFeet > 20
    /\ args.installConfig.liftType = "SCISSOR"
    /\ args.installConfig.hardAccess /\ ~args.installConfig.permit
    /\ quote.installationCost > PreContingencySum(args.installConfig)

\* C20: for window vinyl the fabrication cost before rush is max(raw cost,
\* minimum price), the line items never hold a minimum-applied item, and they
\* are exactly size, lamination (iff hasLamination), rush (iff isRush).
C20_VinylNoMinimumItem ==
    (Done /\ args.signType = WINDOW_VINYL) =>
        LET raw == VinylSizeCost(args)
                   + (IF args.hasLamination THEN VinylLamination(args) ELSE 0)
            floored == Max(raw, MinPriceOf(WINDOW_VINYL))
        IN  /\ quote.fabricationCost
                  = floored + (IF args.isRush THEN Pct(floored, RushPercent) ELSE 0)
            /\ ~HasItem(quote.breakdown.fabAdders, "Minimum Pricing Applied")
            /\ Labels(quote.breakdown.fabAdders)
                  = <<"Size">>
                    \o (IF args.hasLamination THEN <<"Lamination (+25%)">> ELSE << >>)
                    \o (IF args.isRush THEN <<"Rush Order (+12%)">> ELSE << >>)

\* A laminated, rushed window vinyl quote on which the floor binds.
C20_Witness ==
    /\ Done /\ args.signType = WINDOW_VINYL
    /\ args.hasLamination /\ args.isRush
    /\ VinylSizeCost(args) > 0
    /\ VinylSizeCost(args) + VinylLamination(args) < MinPriceOf(WINDOW_VINYL)
    /\ Len(quote.breakdown.fabAdders) = 3

----------------------------------------------------------------------------
(* Fields the engine does not read.                                        *)

\* The call with the variant's cosmetic fields and the customer metadata
\* replaced, everything else kept.
WithCosmetics(a, style, customer) ==
    [a EXCEPT
        !.variant = Variant(@.lighting, @.roundedBacker, style),
        !.installConfig = [@ EXCEPT !.address = customer.address,
                                    !.clientName = customer.clientName]]

\* C16: two calls that agree on everything except the variant's cosmetic
\* fields (name, font, spacing, stroke, colors, recommended height,
\* description) and the installation's address and clientName return the same
\* QuoteResult, costs and line items.
C16_CosmeticsIgnored ==
    Done =>
        \A style \in Styles, customer \in Customers :
            Quote(WithCosmetics(args, style, customer)) = quote

\* A channel letters quote above the minimum price, for letters of a height
\* other than the one either style recommends.
C16_Witness ==
    /\ Done /\ args.signType = CHANNEL_LETTERS
    /\ letterCount(args.text) > 0
    /\ \A style \in Styles :
          args.dimensions.heightIn # style.recommendedLetterHeightIn
    /\ quote.fabricationCost > MinPriceOf(CHANNEL_LETTERS)
    /\ \E style \in Styles, customer \in Customers :
          WithCosmetics(args, style, customer) # args

----------------------------------------------------------------------------
(* Overlapping invocations.                                                *)

\* What each invocation has returned is what the call returns when it runs
\* alone, and the pricing table is the one established at startup.
EachAsAlone ==
    /\ PRICING = PricingRules
    /\ \A i \in Invocations :
          IF calls[i].pc = "done"
          THEN calls[i].result = Quote(calls[i].args)
          ELSE calls[i].result = NoQuote
    /\ pc = "done" => quote = Quote(args)

\* No step changes the pricing table or the arguments of a call that was made.
InputsKept ==
    /\ PRICING' = PRICING
    /\ args' = args
    /\ \A i \in Invocations :
          calls[i].pc # "idle" => calls'[i].args = calls[i].args

\* C15: when invocations of calculateQuote interleave, each returns the
\* QuoteResult it returns when run alone, and no step of any of them changes
\* the pricing table or a caller's arguments.
C15_Interleaved == []EachAsAlone /\ [][InputsKept]_vars

\* Two invocations with different arguments, the second made while the first
\* was in flight, have both returned, with different results.
C15_Witness ==
    /\ \A i \in Invocations : calls[i].pc = "done"
    /\ calls[1].args.signType # calls[2].args.signType
    /\ calls[1].args.isRush # calls[2].args.isRush
    /\ calls[1].result # calls[2].result

----------------------------------------------------------------------------
(* Letter count, lightbox depth, result assembly.                          *)

\* The number of characters of the text that are not whitespace.
NonWhitespace(text) == Cardinality({i \in 1..Len(text) : text[i] \notin Whitespace})

\* The fabrication cost after the floor and the rush fee, from a raw cost.
FloorThenRush(raw, minPrice, isRush) ==
    LET floored == Max(raw, minPrice)
    IN  floored + (IF isRush THEN Pct(floored, RushPercent) ELSE 0)

\* C21: for channel letters the letter count is the number of non-whitespace
\* characters of the text; an empty or all-whitespace text returns a quote
\* with letter count 0, zero base, height and lighting amounts, and a
\* fabrication cost before rush of max(backer adder if roundedBacker else 0,
\* minimum price).
C21_LetterCount ==
    (pc # "call" /\ args.signType = CHANNEL_LETTERS) =>
        LET items == quote.breakdown.fabAdders
            rules == PRICING.FABRICATION[CHANNEL_LETTERS]
            lit == {l \in {"Front Lit Upgrade", "Back Lit Upgrade"} : HasItem(items, l)}
        IN  /\ Done
            /\ ItemArgs(items, "Letters Base")[1] = NonWhitespace(args.text)
            /\ NonWhitespace(args.text) = 0 =>
                  /\ ItemArgs(items, "Letters Base")[3] = 0
                  /\ ItemArgs(items, "Height Adder")[2] = 0
                  /\ \A l \in lit : ItemArgs(items, l) = <<0>>
                  /\ quote.fabricationCost =
                        FloorThenRush(IF args.variant.roundedBacker
                                      THEN Dollars(rules.BACKER_ADDER) ELSE 0,
                                      Dollars(rules.MIN_PRICE), args.isRush)

\* A rushed, back-lit, backed quote for a text of two spaces.
C21_Witness ==
    /\ Done /\ args.signType = CHANNEL_LETTERS
    /\ args.text = <<" ", " ">>
    /\ args.variant.lighting = BACK_LIT /\ args.variant.roundedBacker
    /\ args.isRush /\ args.dimensions.heightIn > 0

\* C22: for lightbox the depth adder (lightboxDepth - depthBase) *
\* depthAdderPerInch enters the raw cost, with its line item, exactly when
\* lightboxDepth is strictly greater than depthBase; at or below depthBase
\* nothing is added or subtracted and no depth item is emitted.
C22_DepthAdder ==
    (Done /\ args.signType = LIGHTBOX) =>
        LET rules == PRICING.FABRICATION[LIGHTBOX]
            items == quote.breakdown.fabAdders
            excess == args.lightboxDepth - rules.DEPTH_BASE
            adder == excess * Dollars(rules.DEPTH_ADDER_PER_INCH)
            rest == SqftCost(args.dimensions.widthIn * args.dimensions.heightIn,
                             rules.PER_SQFT)
                    + (IF args.variant.lighting = FRONT_LIT
                       THEN LightboxAdder ELSE 0)
            raw == rest + (IF excess > 0 THEN adder ELSE 0)
        IN  /\ HasItem(items, "Depth Adder") <=> excess > 0
            /\ excess > 0 =>
                  ItemArgs(items, "Depth Adder") = <<excess, toFixed2(adder)>>
            /\ quote.fabricationCost
                  = FloorThenRush(raw, Dollars(rules.MIN_PRICE), args.isRush)

\* A lightbox deeper than the base depth, priced above the minimum.
C22_Witness ==
    /\ Done /\ args.signType = LIGHTBOX
    /\ args.lightboxDepth > PRICING.FABRICATION[LIGHTBOX].DEPTH_BASE
    /\ HasItem(quote.breakdown.fabAdders, "Depth Adder")
    /\ quote.fabricationCost > MinPriceOf(LIGHTBOX)

\* C27: in every QuoteResult breakdown.fabBase equals fabricationCost (the
\* floored fabrication cost with any rush fee), breakdown.installLabor is the
\* selected tier's hours times the labor rate, and breakdown.installLift is
\* the lift cost, 0 for liftType NONE.
C27_Breakdown ==
    Done =>
        LET iRules == PRICING.INSTALLATION
            c == args.installConfig
        IN  /\ quote.breakdown.fabBase = quote.fabricationCost
            /\ quote.fabricationCost
                  = FloorThenRush(RawCostOf(args), MinPriceOf(args.signType),
                                  args.isRush)
            /\ quote.breakdown.installLabor
                  = TierHours(c.heightFeet) * Dollars(iRules.LABOR_RATE)
            /\ quote.breakdown.installLift
                  = (CASE c.liftType = "SCISSOR" -> Dollars(iRules.LIFT.SCISSOR)
                       [] c.liftType = "BOOM" -> Dollars(iRules.LIFT.BOOM)
                       [] c.liftType = "NONE" -> 0)

\* A rushed quote on which the floor binds, installed with a scissor lift.
C27_Witness ==
    /\ Done /\ args.isRush
    /\ RawCostOf(args) < MinPriceOf(args.signType)
    /\ args.installConfig.liftType = "SCISSOR"
    /\ quote.breakdown.installLift > 0

----------------------------------------------------------------------------
(* Inputs of another category.                                             *)

\* Calls at the corners of the input domain: the extreme sizes and depths,
\* the empty text and OPEN, every category and variant, under the two
\* installation configurations.
CornerInputs ==
    { WithInstall(s, c) :
        s \in { t \in SignInputs :
                  /\ t.dimensions.widthIn \in {0, 12 * MaxWidthSteps}
                  /\ t.dimensions.heightIn \in {0, 6 * MaxHeightSteps}
                  /\ t.text \in { << >>, <<"O", "P", "E", "N">> }
                  /\ t.lightboxDepth \in {2, 2 * MaxDepthSteps} },
        c \in {AppInstallConfig, OppositeInstallConfig} }

InitCorner ==
    /\ PRICING = PricingRules
    /\ args \in CornerInputs
    /\ quote = NoQuote
    /\ pc = "call"
    /\ calls = NoCalls /\ frames = NoCalls
    /\ app = NotMounted /\ calibrator = NotMounted /\ design = NotMounted

SpecCorner == InitCorner /\ [][Next]_vars

\* The sign inputs of a call.
SignInputsOf(a) ==
    [ signType |-> a.signType, dimensions |-> a.dimensions, text |-> a.text,
      variant |-> a.variant, isRush |-> a.isRush,
      hasLamination |-> a.hasLamination, lightboxDepth |-> a.lightboxDepth ]

\* C25: inputs that belong to another category never change a quote: channel
\* letters ignore widthIn, hasLamination and lightboxDepth; lightbox ignores
\* text, roundedBacker and hasLamination; window vinyl ignores text, lighting,
\* roundedBacker and lightboxDepth; and the installation cost and items are
\* the same for every category, dimensions, text, variant, isRush,
\* hasLamination and lightboxDepth.
C25_OtherCategoryInputs ==
    Done =>
        /\ args.signType = CHANNEL_LETTERS =>
              \A w \in Widths, lam \in BOOLEAN, d \in Depths :
                  Quote([args EXCEPT !.dimensions.widthIn = w,
                                     !.hasLamination = lam,
                                     !.lightboxDepth = d]) = quote
        /\ args.signType = LIGHTBOX =>
              \A t \in Texts, b \in BOOLEAN, lam \in BOOLEAN :
                  Quote([args EXCEPT !.text = t,
                                     !.variant.roundedBacker = b,
                                     !.hasLamination = lam]) = quote
        /\ args.signType = WINDOW_VINYL =>
              \A t \in Texts, l \in LightingType, b \in BOOLEAN, d \in Depths :
                  Quote([args EXCEPT !.text = t,
                                     !.variant.lighting = l,
                                     !.variant.roundedBacker = b,
                                     !.lightboxDepth = d]) = quote
        /\ \A s \in AppSignInputs :
              LET other == Quote(WithInstall(s, args.installConfig))
              IN  /\ other.installationCost = quote.installationCost
                  /\ other.breakdown.installAdders = quote.breakdown.installAdders
                  /\ other.breakdown.installLabor = quote.breakdown.installLabor
                  /\ other.breakdown.installLift = quote.breakdown.installLift

\* A lightbox quote above the minimum price for a variant with a backer, a
\* laminated order and a text with letters, none of which a lightbox prices,
\* and for sign inputs other than the App's.
C25_Witness ==
    /\ Done /\ args.signType = LIGHTBOX
    /\ args.variant.roundedBacker /\ args.hasLamination
    /\ letterCount(args.text) > 0
    /\ quote.fabricationCost > MinPriceOf(LIGHTBOX)
    /\ SignInputsOf(args) \notin AppSignInputs


----------------------------------------------------------------------------
\* What the claim C24 says of one settled promise.
LightingEnforced(promise, apiKey) ==
    /\ promise.status = "fulfilled" =>
          /\ Len(promise.variants) <= 3
          /\ \A i \in DOMAIN promise.variants :
                promise.variants[i].lighting =
                    IF i - 1 = 1 THEN BACK_LIT ELSE FRONT_LIT
    /\ promise.status = "rejected" =>
          ~apiKey /\ promise.reason = "API Key is missing"
    /\ apiKey => promise.status = "fulfilled"

\* C24: whenever generateDesignVariants returns, on the API path and on the
\* fallback path, the result has at most 3 variants, the variant at index 1
\* is BACK_LIT and every other one FRONT_LIT, whatever the response declared;
\* the only failure that reaches the caller is the missing API key.
C24_LightingEnforced ==
    /\ design # NotMounted /\ design.promise.status \in {"fulfilled", "rejected"} =>
          LightingEnforced(design.promise, design.apiKey)
    /\ \A apiKey \in BOOLEAN, reply \in Replies,
          allowedFonts \in {<< >>, <<"Impact">>, AppAllowedFonts} :
          LightingEnforced(generateDesignVariants(apiKey, allowedFonts, reply),
                           apiKey)

\* The promise fulfilled on the API path from a response of four variants
\* whose declared lighting is none of the enforced ones.
C24_Witness ==
    /\ design # NotMounted
    /\ design.promise.status = "fulfilled"
    /\ design.promise.path = "api"
    /\ Len(design.reply.variants) = 4
    /\ Len(design.promise.variants) = 3
    /\ \A i \in 1..3 :
          design.reply.variants[i].lighting # design.promise.variants[i].lighting



----------------------------------------------------------------------------
\* The variant is one of the listed variants.
Listed(v, variants) == \E i \in DOMAIN variants : variants[i] = v

\* C23: in the App, after any sequence of image loads, design generations
\* (also ones with an empty variant list, or failing) and variant clicks, a
\* non-null selectedVariant is an element of the current variants list, so a
\* quote is only computed for a variant that is listed.
C23_SelectedListed_AsStated ==
    app # NotMounted =>
        /\ app.selectedVariant # Null => Listed(app.selectedVariant, app.variants)
        /\ quote # NoQuote => Listed(args.variant, app.variants)



----------------------------------------------------------------------------
\* Both endpoints of the line are set and the entered distance parses to a
\* number greater than 0.
Measurable(c) ==
    /\ c.startPoint # Null /\ c.endPoint # Null
    /\ ~parseFloat(c.realDistance).nan
    /\ parseFloat(c.realDistance).value > 0

\* What the claim C26 says of one step of the program.
CalibrationStep ==
    /\ submitCalibration =>
          IF Measurable(calibrator)
          THEN /\ app'.pxPerInch =
                     Ratio(DistPx(calibrator.startPoint, calibrator.endPoint),
                           parseFloat(calibrator.realDistance).value)
               /\ ~calibrator'.showInput
               /\ calibrator'.startPoint = calibrator.startPoint
               /\ calibrator'.endPoint = calibrator.endPoint
          ELSE UNCHANGED <<app, calibrator>>
    /\ app.step # 2 /\ app'.step = 2 => IsPositive(app'.pxPerInch)

\* C26: submitCalibration reports a calibration through onCalibrated and
\* closes the dialog only when both endpoints are set and the entered
\* distance parses to a number greater than 0; otherwise nothing is reported
\* and the dialog and the endpoints stay as they are; the App advances to
\* step 2 only when the reported pxPerInch is greater than 0.
C26_Calibration == [][CalibrationStep]_vars

\* A line of 5 px submitted as 36 inches: reported, the dialog closed, the
\* App at step 2.
C26_Witness ==
    /\ app # NotMounted
    /\ app.step = 2
    /\ app.pxPerInch = [px |-> 5, inches |-> 36]
    /\ ~calibrator.showInput
    /\ calibrator.startPoint # Null /\ calibrator.endPoint # Null
    /\ calibrator.realDistance = <<"3", "6">>


====
